---- MODULE Spec2Model ----
(***************************************************************************)
(* Evidence-Based Scheduling (src/src/main.rs): the loader                 *)
(* EBS::new_from_file, the simulation EBS::montecarlo with its percentile  *)
(* extraction, and the calendar walk dev_days_as_days.                     *)
(*                                                                         *)
(* f32 values are modelled as exact rationals <<num, den>> in lowest       *)
(* terms; an Option is a sequence of length 0 (None) or 1 (Some).          *)
(* Estimates and actuals are positive whole hours, so no ratio is          *)
(* non-finite and partial_cmp never returns None.                          *)
(***************************************************************************)
EXTENDS Integers, Sequences, FiniteSets, TLC

\* ------------------------------------------------------------- bounds
\* Longest input file of the loader specification.
MaxRecords == 3

\* Largest number of hours main projects onto the calendar.
MaxHours == 40

\* Longest input file and largest small trial count of the simulation specification.
MCRecords == 4
MaxCount == 2

\* Largest trial count of the percentile specification.
MaxTrials == 150

\* Project names, estimates and actuals a record of the input may carry.
Names == {"A", "B"}
Estimates == {1, 2}
Actuals == {1, 2}

\* ------------------------------------------------------------- program constants
DEFAULT_COUNT == 1000000
\* The number of ranks: `count / 100`
RankCount == 100

\* ------------------------------------------------------------- values
None == <<>>
Some(v) == <<v>>
Option(S) == {None} \cup {Some(v) : v \in S}
IsSome(o) == Len(o) = 1
Unwrap(o) == o[1]

RECURSIVE GCD(_, _)
GCD(a, b) == IF b = 0 THEN a ELSE GCD(b, a % b)

\* The f32 value n / d (d > 0), in lowest terms.
Rat(n, d) == LET g == GCD(n, d) IN <<n \div g, d \div g>>
FromInt(n) == <<n, 1>>
Zero == FromInt(0)
RatAdd(x, y) == Rat(x[1] * y[2] + y[1] * x[2], x[2] * y[2])
RatMul(x, y) == Rat(x[1] * y[1], x[2] * y[2])
RatDiv(x, y) == Rat(x[1] * y[2], x[2] * y[1])
\* a.partial_cmp(b) is Less or Equal
RatLeq(x, y) == x[1] * y[2] <= y[1] * x[2]

Range(s) == {s[i] : i \in 1..Len(s)}

\* sort_by(|a, b| a.partial_cmp(b).unwrap()): ascending. Place k holds the value
\* that fewer than k elements sort before and at least k elements do not sort
\* after. Equal values are the same pair, so stability shows in nothing.
Sort(s) ==
    [k \in 1..Len(s) |->
        CHOOSE v \in Range(s) :
            /\ Cardinality({j \in 1..Len(s) : ~RatLeq(v, s[j])}) < k
            /\ Cardinality({j \in 1..Len(s) : RatLeq(s[j], v)}) >= k]


\* ------------------------------------------------------------- state
VARIABLES
    pc,                          \* position of the program
    rows,                        \* records the csv reader has yielded so far
    projects, buffer, todos, velocity, simulation_runs,   \* the EBS fields
    estimates, actuals, only_with_estimates_actuals, all_actuals, \* loader locals
    count, overflow_checks, order,   \* montecarlo: argument, build profile, map order
    step, start, trial, pos, remaining,  \* montecarlo locals
    t, sampled, time_remaining,      \* locals of the per-project closure
    ranks,                       \* value returned by montecarlo
    hours, startdate, number, acc, iter  \* main's projection and dev_days_as_days

ebsVars == <<projects, buffer, todos, velocity, simulation_runs>>
loadVars == <<rows, estimates, actuals, only_with_estimates_actuals, all_actuals>>
mcVars == <<count, overflow_checks, order, step, start, trial, pos, remaining,
            t, sampled, time_remaining, ranks>>
dateVars == <<hours, startdate, number, acc, iter>>
vars == <<pc, ebsVars, loadVars, mcVars, dateVars>>

\* Vec indices are 0-based; sequences are 1-based.
Get(v, i) == v[i + 1]
HasIndex(v, i) == i < Len(v)

\* ------------------------------------------------------------- Task
Task == [project : Option(Names), estimate : Option(Estimates), actual : Option(Actuals)]

\* The EBS of Self::default() and the loader's empty locals.
EmptyMap == [n \in {} |-> 0]
LoadIdle ==
    /\ rows = <<>>
    /\ estimates = <<>> /\ actuals = <<>>
    /\ only_with_estimates_actuals = <<>> /\ all_actuals = <<>>
McIdle ==
    /\ count = 0 /\ overflow_checks = FALSE /\ order = <<>>
    /\ step = 0 /\ start = 0 /\ trial = 0 /\ pos = 0 /\ remaining = Zero
    /\ t = Zero /\ sampled = Zero /\ time_remaining = Zero /\ ranks = <<>>
DateIdle ==
    /\ hours = 0 /\ startdate = 0 /\ number = 0 /\ acc = 0 /\ iter = 0
EbsDefault ==
    /\ projects = EmptyMap /\ buffer = <<>> /\ todos = <<>>
    /\ velocity = <<>> /\ simulation_runs = <<>>

\* ------------------------------------------------------------- new_from_file
\* A plausible slip: ids counted from 1.
NewIdFromOne(ps) == Cardinality(DOMAIN ps) + 1

\* The id a project seen for the first time receives: res.projects.keys().len()
NewId(ps) == Cardinality(DOMAIN ps)

\* *res.projects.entry(project).or_insert(id)
EntryOrInsert(ps, project, id) ==
    IF project \in DOMAIN ps THEN ps
    ELSE [n \in DOMAIN ps \cup {project} |-> IF n = project THEN id ELSE ps[n]]

\* if let Some(exists) = v.get_mut(id) { *exists += x } else { v.push(x) }
AddOrPush(v, id, x) ==
    IF HasIndex(v, id) THEN [v EXCEPT ![id + 1] = @ + x] ELSE Append(v, x)

\* if let Some(exists) = v.get_mut(id) { exists.push(x) } else { v.push(vec![x]) }
PushOrNew(v, id, x) ==
    IF HasIndex(v, id) THEN [v EXCEPT ![id + 1] = Append(@, x)] ELSE Append(v, <<x>>)

\* The loader's state: the two fields of res it fills while reading, and its locals.
LoaderState(ps, td, es, as, owea, aa) ==
    [projects |-> ps, todos |-> td, estimates |-> es, actuals |-> as,
     only_with_estimates_actuals |-> owea, all_actuals |-> aa]

LoaderStart == LoaderState(EmptyMap, <<>>, <<>>, <<>>, <<>>, <<>>)

\* The body of the loop over the records, for one record.
ProcessRecord(L, record) ==
    IF ~IsSome(record.project) THEN L
    ELSE
        LET project == Unwrap(record.project)
            ps == EntryOrInsert(L.projects, project, NewId(L.projects))
            id == ps[project]
        IN  IF IsSome(record.estimate) /\ IsSome(record.actual) THEN
                LET estimate == Unwrap(record.estimate)
                    actual == Unwrap(record.actual)
                IN  [L EXCEPT !.projects = ps,
                              !.estimates = Append(@, estimate),
                              !.actuals = Append(@, actual),
                              !.all_actuals = AddOrPush(@, id, actual),
                              !.only_with_estimates_actuals = AddOrPush(@, id, actual)]
            ELSE IF IsSome(record.estimate) THEN
                [L EXCEPT !.projects = ps,
                          !.todos = PushOrNew(@, id, Unwrap(record.estimate))]
            ELSE IF IsSome(record.actual) THEN
                [L EXCEPT !.projects = ps,
                          !.all_actuals = AddOrPush(@, id, Unwrap(record.actual))]
            ELSE [L EXCEPT !.projects = ps]

Ids(ps) == {ps[n] : n \in DOMAIN ps}

\* Indexing all_actuals[*id] or only_with_estimates_actuals[*id] out of bounds panics.
BufferPanics(L) ==
    \E id \in Ids(L.projects) :
        ~HasIndex(L.all_actuals, id) \/ ~HasIndex(L.only_with_estimates_actuals, id)

\* all_actuals[*id] / only_with_estimates_actuals[*id]
BufferRatio(L, id) == Rat(Get(L.all_actuals, id), Get(L.only_with_estimates_actuals, id))

\* The values of a map in one of its iteration orders.
RECURSIVE SeqOfSet(_)
SeqOfSet(S) == IF S = {} THEN <<>> ELSE LET x == CHOOSE y \in S : TRUE IN <<x>> \o SeqOfSet(S \ {x})

\* res.projects.values().map(..).collect(), then sort_by: one ratio per map entry.
\* The sort makes the map's iteration order immaterial.
BufferOf(L) ==
    LET ids == SeqOfSet(DOMAIN L.projects)
    IN  Sort([i \in 1..Len(ids) |-> BufferRatio(L, L.projects[ids[i]])])

\* zip(estimates, actuals).map(|(e, a)| e / a).collect(), then sort_by
VelocityOf(L) == Sort([i \in 1..Len(L.estimates) |-> Rat(L.estimates[i], L.actuals[i])])

CurrentLoader ==
    LoaderState(projects, todos, estimates, actuals, only_with_estimates_actuals, all_actuals)

InitLoad ==
    /\ pc = "reading"
    /\ EbsDefault /\ LoadIdle /\ McIdle /\ DateIdle

\* One iteration of the loop over rdr.deserialize().
ReadRecord ==
    /\ pc = "reading"
    /\ Len(rows) < MaxRecords
    /\ \E record \in Task :
        LET L == ProcessRecord(CurrentLoader, record)
        IN  /\ rows' = Append(rows, record)
            /\ projects' = L.projects
            /\ todos' = L.todos
            /\ estimates' = L.estimates
            /\ actuals' = L.actuals
            /\ only_with_estimates_actuals' = L.only_with_estimates_actuals
            /\ all_actuals' = L.all_actuals
    /\ UNCHANGED <<pc, buffer, velocity, simulation_runs, mcVars, dateVars>>

\* `result?` on a record the csv reader cannot deserialize: the load returns Err.
ReadError ==
    /\ pc = "reading"
    /\ Len(rows) < MaxRecords
    /\ pc' = "load_err"
    /\ UNCHANGED <<ebsVars, loadVars, mcVars, dateVars>>

\* End of input: the buffer and velocity distributions are built and sorted.
FinishLoad ==
    /\ pc = "reading"
    /\ IF BufferPanics(CurrentLoader)
       THEN /\ pc' = "load_panic"
            /\ UNCHANGED <<buffer, velocity>>
       ELSE /\ pc' = "loaded"
            /\ buffer' = BufferOf(CurrentLoader)
            /\ velocity' = VelocityOf(CurrentLoader)
    /\ UNCHANGED <<projects, todos, simulation_runs, loadVars, mcVars, dateVars>>

NextLoad == ReadRecord \/ ReadError \/ FinishLoad

SpecLoad == InitLoad /\ [][NextLoad]_vars

\* ------------------------------------------------------------- what the input says
\* The records of project p among the first k the reader yielded.
RowsOf(p) == SelectSeq(rows, LAMBDA r : r.project = Some(p))
FullyObserved(r) == IsSome(r.estimate) /\ IsSome(r.actual)
EstimateOnly(r) == IsSome(r.estimate) /\ ~IsSome(r.actual)
HasFull(p) == \E i \in 1..Len(rows) : rows[i].project = Some(p) /\ FullyObserved(rows[i])

RECURSIVE SumActual(_)
SumActual(s) == IF s = <<>> THEN 0 ELSE Unwrap(s[Len(s)].actual) + SumActual(SubSeq(s, 1, Len(s) - 1))

\* Names in the order of their first record.
RECURSIVE FirstSeen(_)
FirstSeen(s) ==
    IF s = <<>> THEN <<>>
    ELSE LET before == FirstSeen(SubSeq(s, 1, Len(s) - 1))
             r == s[Len(s)]
         IN  IF IsSome(r.project) /\ Unwrap(r.project) \notin Range(before)
             THEN Append(before, Unwrap(r.project)) ELSE before

WithActual(s) == SelectSeq(s, LAMBDA r : IsSome(r.actual))
BothPresent(s) == SelectSeq(s, FullyObserved)
BacklogOf(p) ==
    LET own == SelectSeq(RowsOf(p), EstimateOnly)
    IN  [i \in 1..Len(own) |-> Unwrap(own[i].estimate)]
LoadEnded == pc \in {"loaded", "load_panic"}

\* ------------------------------------------------------------- loader claims
\* C9: after any prefix of the records the project ids are exactly 0..N-1 for the
\* N distinct names seen, in first-seen order (so an id never changes), and a
\* record without a project assigns none.
C9_DenseFirstSeenIds ==
    LET seen == FirstSeen(rows)
    IN  /\ DOMAIN projects = Range(seen)
        /\ \A i \in 1..Len(seen) : projects[seen[i]] = i - 1
        /\ Ids(projects) = 0..(Len(seen) - 1)

C9_Witness ==
    /\ Cardinality(DOMAIN projects) = 2
    /\ Len(rows) = MaxRecords
    /\ \E i \in 1..Len(rows) : ~IsSome(rows[i].project)

\* C5: for every project p, todos[p] exists and is the sequence of estimates of
\* p's own estimate-only records in input order (empty when there is none).
C5_BacklogIsOwnEstimates ==
    \A p \in DOMAIN projects :
        /\ HasIndex(todos, projects[p])
        /\ Get(todos, projects[p]) = BacklogOf(p)

\* C6: for every project p with a fully-observed record, the ratio the loader
\* computes at index p is (sum of p's actuals) / (sum of p's actuals that have an
\* estimate): the accumulators at p hold p's records only.
C6_BufferRatioIsOwn ==
    pc = "loaded" =>
        \A p \in DOMAIN projects :
            HasFull(p) =>
                /\ HasIndex(all_actuals, projects[p])
                /\ HasIndex(only_with_estimates_actuals, projects[p])
                /\ BufferRatio(CurrentLoader, projects[p])
                       = Rat(SumActual(WithActual(RowsOf(p))), SumActual(BothPresent(RowsOf(p))))

\* C4: the pooled buffer distribution has one entry per project with a
\* fully-observed record; a dataset holding a project without one loads without
\* failing and without a non-finite entry.
C4_BufferOnePerObservedProject ==
    LoadEnded =>
        /\ (\E p \in DOMAIN projects : ~HasFull(p)) => pc = "loaded"
        /\ pc = "loaded" =>
            /\ Len(buffer) = Cardinality({p \in DOMAIN projects : HasFull(p)})
            /\ \A i \in 1..Len(buffer) : buffer[i][2] # 0

\* ------------------------------------------------------------- dev_days_as_days
\* A date is a day number; day 0 is a Monday.
WeekdayNames == <<"Monday", "Tuesday", "Wednesday", "Thursday", "Friday", "Saturday", "Sunday">>
Weekday(day) == WeekdayNames[(day % 7) + 1]
StartDates == 0..6

\* A plausible slip: a Saturday moved on by one day only.
NextDevDayShortWeekend(day) ==
    LET next == day + 1
    IN  IF Weekday(next) = "Sunday" \/ Weekday(next) = "Saturday" THEN next + 1 ELSE next

\* The closure of the fold: the start of the next day, moved to Monday when that
\* day is a Saturday (2 days) or a Sunday (1 day).
NextDevDay(day) ==
    LET next == day + 1
    IN  CASE Weekday(next) = "Saturday" -> next + 2
          [] Weekday(next) = "Sunday" -> next + 1
          [] OTHER -> next

\* (hours / 8.0).ceil() as usize, for a whole number of hours
DevDays(h) == (h + 7) \div 8

\* The number of times the fold over 0..=number runs its closure.
FoldLength(n) == n + 1

InitDate ==
    /\ pc = "main"
    /\ hours \in 0..MaxHours
    /\ startdate \in StartDates
    /\ number = 0 /\ acc = 0 /\ iter = 0
    /\ EbsDefault /\ LoadIdle /\ McIdle

\* main: the day count of a percentile, handed to dev_days_as_days with today's date.
CallDevDays ==
    /\ pc = "main"
    /\ number' = DevDays(hours)
    /\ acc' = startdate
    /\ iter' = 0
    /\ pc' = "walking"
    /\ UNCHANGED <<hours, startdate, ebsVars, loadVars, mcVars>>

\* One run of the fold's closure.
DayStep ==
    /\ pc = "walking"
    /\ iter < FoldLength(number)
    /\ acc' = NextDevDay(acc)
    /\ iter' = iter + 1
    /\ UNCHANGED <<pc, hours, startdate, number, ebsVars, loadVars, mcVars>>

\* The fold is exhausted: acc is returned.
ReturnDate ==
    /\ pc = "walking"
    /\ iter = FoldLength(number)
    /\ pc' = "date_done"
    /\ UNCHANGED <<dateVars, ebsVars, loadVars, mcVars>>

NextDate == CallDevDays \/ DayStep \/ ReturnDate

SpecDate == InitDate /\ [][NextDate]_vars

\* ------------------------------------------------------------- calendar claims
IsBusinessDay(day) == Weekday(day) \notin {"Saturday", "Sunday"}
BusinessDaysAfter(from, to) == Cardinality({d \in (from + 1)..to : IsBusinessDay(d)})

\* C3: for requiredHours > 0 the projected date is the one reached by advancing
\* exactly n = ceil(requiredHours / 8) business days from the start date; 8 hours
\* from a Friday is the following Monday.
C3_AdvancesExactlyNBusinessDays ==
    (pc = "date_done" /\ hours > 0) =>
        /\ IsBusinessDay(acc)
        /\ BusinessDaysAfter(startdate, acc) = DevDays(hours)

\* C8: the date returned, and the accumulator after every step of the walk, is a
\* Monday to Friday, for every day count and every start date.
C8_NeverWeekend ==
    ((pc = "walking" /\ iter >= 1) \/ pc = "date_done") => IsBusinessDay(acc)

C8_Witness ==
    /\ pc = "date_done"
    /\ Weekday(startdate) = "Friday"
    /\ number = 5
    /\ acc = startdate + 10
    /\ Weekday(acc) = "Monday"

\* ------------------------------------------------------------- montecarlo
\* The whole loop of new_from_file over a file.
RECURSIVE LoadAll(_)
LoadAll(file) ==
    IF file = <<>> THEN LoaderStart
    ELSE ProcessRecord(LoadAll(SubSeq(file, 1, Len(file) - 1)), file[Len(file)])

\* The files the simulation is run on: any sequence of records that change the
\* loader's state (a project, and an estimate or an actual), with actuals of one
\* hour. Velocities and buffer ratios still take several values.
SimulatedActuals == {1}
EffectiveTasks ==
    {r \in Task : /\ IsSome(r.project)
                  /\ IsSome(r.estimate) \/ IsSome(r.actual)
                  /\ IsSome(r.actual) => Unwrap(r.actual) \in SimulatedActuals}
FilesOfLength(k) == [1..k -> EffectiveTasks]

\* Every draw of the simulation of this EBS yields the same value.
SingleValued(vel, buf) == Cardinality(Range(vel)) <= 1 /\ Cardinality(Range(buf)) <= 1

\* The iteration orders of a HashMap with these keys.
Orders(keys) == {o \in [1..Cardinality(keys) -> keys] : Range(o) = keys}

\* count.unwrap_or(DEFAULT_COUNT)
CountOf(arg) == IF IsSome(arg) THEN Unwrap(arg) ELSE DEFAULT_COUNT

\* count / 100
StepOf(n) == n \div RankCount

\* step - 1 in usize, when it does not underflow; -1 stands for usize::MAX
StartOf(st) == st - 1

\* iter().skip(start).step_by(step).copied().collect(), for step > 0
PercentileExtract(times, st, stp) ==
    LET n == IF st < 0 \/ st >= Len(times) THEN 0 ELSE ((Len(times) - st - 1) \div stp) + 1
    IN  [k \in 1..n |-> times[st + (k - 1) * stp + 1]]

\* A plausible slip: the accumulator is not carried from project to project.
TimeRemainingNoCarry(hrs, buf, rem) == RatMul(hrs, buf)

\* t * buffer + remaining
TimeRemaining(hrs, buf, rem) == RatAdd(RatMul(hrs, buf), rem)

\* The inner fold: t / velocity + estimate over the task estimates, with the
\* velocity drawn for each task.
RECURSIVE TaskHours(_, _)
TaskHours(task_estimates, drawn) ==
    IF task_estimates = <<>> THEN Zero
    ELSE LET k == Len(task_estimates)
         IN  RatAdd(RatDiv(FromInt(task_estimates[k]), drawn[k]),
                    TaskHours(SubSeq(task_estimates, 1, k - 1), SubSeq(drawn, 1, k - 1)))

\* main after new_from_file returned Ok: the EBS loaded from a file, the map's
\* iteration order, the build profile and the trial count. Counts below 100 are
\* run on every file; 100 trials are run on the files whose distributions hold
\* one value each, where the draws leave one run.
InitMC ==
    /\ pc = "loaded"
    /\ \E k \in 0..MCRecords : \E file \in FilesOfLength(k) :
        LET L == LoadAll(file)
        IN  /\ ~BufferPanics(L)
            /\ projects = L.projects
            /\ todos = L.todos
            /\ buffer = BufferOf(L)
            /\ velocity = VelocityOf(L)
    /\ simulation_runs = <<>>
    /\ order \in Orders(DOMAIN projects)
    /\ overflow_checks \in BOOLEAN
    /\ count \in 0..MaxCount \cup (IF SingleValued(velocity, buffer) THEN {RankCount} ELSE {})
    /\ step = 0 /\ start = 0 /\ trial = 0 /\ pos = 0 /\ remaining = Zero
    /\ t = Zero /\ sampled = Zero /\ time_remaining = Zero /\ ranks = <<>>
    /\ LoadIdle /\ DateIdle

\* Lines 105-109: the step and the start of the percentile extraction. step - 1
\* underflows for count < 100: a panic with overflow checks, usize::MAX without.
StartMonteCarlo ==
    /\ pc = "loaded"
    /\ step' = StepOf(CountOf(Some(count)))
    /\ IF step' = 0 /\ overflow_checks
       THEN /\ pc' = "panic_overflow"
            /\ UNCHANGED start
       ELSE /\ pc' = "trials"
            /\ start' = StartOf(step')
    /\ UNCHANGED <<ebsVars, loadVars, dateVars, count, overflow_checks, order,
                   trial, pos, remaining, t, sampled, time_remaining, ranks>>

\* The closure of the fold over self.projects.iter(), for the next project.
SimulateProject ==
    /\ pc = "trials"
    /\ trial < count
    /\ pos < Len(order)
    /\ LET id == projects[order[pos + 1]]
       IN  IF ~HasIndex(todos, id)
           THEN /\ pc' = "panic_index"
                /\ UNCHANGED <<simulation_runs, pos, remaining, t, sampled, time_remaining>>
           ELSE IF (Get(todos, id) # <<>> /\ velocity = <<>>) \/ buffer = <<>>
           THEN /\ pc' = "panic_unwrap"
                /\ UNCHANGED <<simulation_runs, pos, remaining, t, sampled, time_remaining>>
           ELSE \E drawn \in [1..Len(Get(todos, id)) -> Range(velocity)], b \in Range(buffer) :
                /\ t' = TaskHours(Get(todos, id), drawn)
                /\ sampled' = b
                /\ time_remaining' = TimeRemaining(t', b, remaining)
                /\ simulation_runs' = PushOrNew(simulation_runs, id, time_remaining')
                /\ remaining' = time_remaining'
                /\ pos' = pos + 1
                /\ pc' = "trials"
    /\ UNCHANGED <<projects, buffer, todos, velocity, loadVars, dateVars,
                   count, overflow_checks, order, step, start, trial, ranks>>

\* The fold of one trial is over: the next trial starts from 0.0.
NextTrial ==
    /\ pc = "trials"
    /\ trial < count
    /\ pos = Len(order)
    /\ trial' = trial + 1
    /\ pos' = 0
    /\ remaining' = Zero
    /\ UNCHANGED <<pc, ebsVars, loadVars, dateVars, count, overflow_checks, order,
                   step, start, t, sampled, time_remaining, ranks>>

\* Lines 137-143: every row is sorted in place and sampled. step_by(0) panics as
\* soon as there is a row to sample.
ExtractPercentiles ==
    /\ pc = "trials"
    /\ trial = count
    /\ IF step = 0 /\ simulation_runs # <<>>
       THEN /\ pc' = "panic_step_by"
            /\ simulation_runs' = [simulation_runs EXCEPT ![1] = Sort(@)]
            /\ UNCHANGED ranks
       ELSE /\ pc' = "mc_done"
            /\ simulation_runs' = [i \in 1..Len(simulation_runs) |-> Sort(simulation_runs[i])]
            /\ ranks' = [i \in 1..Len(simulation_runs) |->
                            PercentileExtract(simulation_runs'[i], start, step)]
    /\ UNCHANGED <<projects, buffer, todos, velocity, loadVars, dateVars, count,
                   overflow_checks, order, step, start, trial, pos, remaining,
                   t, sampled, time_remaining>>

NextMC == StartMonteCarlo \/ SimulateProject \/ NextTrial \/ ExtractPercentiles

SpecMC == InitMC /\ [][NextMC]_vars

\* ------------------------------------------------------------- percentile extraction
\* The state after the trial loop for one project whose T outcomes are 2 hours
\* in the first `high` trials (none, half or all of them) and 1 hour afterwards.
InitPct ==
    /\ pc = "trials"
    /\ count \in RankCount..MaxTrials
    /\ \E high \in {0, count \div 2, count} :
        simulation_runs = <<[i \in 1..count |-> IF i <= high THEN FromInt(2) ELSE FromInt(1)]>>
    /\ step = StepOf(count)
    /\ start = StartOf(step)
    /\ trial = count
    /\ projects = [n \in {"A"} |-> 0]
    /\ order = <<"A">>
    /\ todos = <<<<1>>>>
    /\ velocity = <<Rat(1, 2), FromInt(1)>>
    /\ buffer = <<FromInt(1)>>
    /\ overflow_checks \in BOOLEAN
    /\ pos = 0 /\ remaining = Zero
    /\ t = Zero /\ sampled = Zero /\ time_remaining = Zero /\ ranks = <<>>
    /\ LoadIdle /\ DateIdle

SpecPct == InitPct /\ [][ExtractPercentiles]_vars

\* ------------------------------------------------------------- simulation claims
TrialsDone == (pc = "trials" /\ trial = count) \/ pc = "mc_done"
RunLength(id) == IF HasIndex(simulation_runs, id) THEN Len(Get(simulation_runs, id)) ELSE 0

\* C1: once montecarlo has run its trials, simulation_runs[id] holds exactly
\* count values for every project id, whatever the iteration order of the map.
C1_OneOutcomePerTrial ==
    TrialsDone => \A id \in Ids(projects) : RunLength(id) = count

\* C2: for a trial count T >= 100 the extraction returns exactly 100 values for
\* a project's T sorted outcomes, also when T is not a multiple of 100.
C2_ExactlyRankCountValues ==
    (pc = "mc_done" /\ count >= RankCount) =>
        \A i \in 1..Len(ranks) : Len(ranks[i]) = RankCount

\* C7: a trial count below 100 is rejected: no trial is simulated and no
\* percentile sequence is returned.
C7_SmallCountRejected ==
    count < RankCount => (simulation_runs = <<>> /\ ranks = <<>>)

\* C10: in every run of the per-project closure the value recorded is the value
\* recorded for the project before it in the same trial (0 for the first) plus
\* this project's task hours times its sampled buffer.
Recorded(before, after, value) ==
    \/ \E i \in 1..Len(before) : after = [before EXCEPT ![i] = Append(@, value)]
    \/ after = Append(before, <<value>>)

C10_AccumulatorCarriedWithinTrial ==
    [][(pc = "trials" /\ pc' = "trials" /\ pos' = pos + 1) =>
        LET task_estimates == Get(todos, projects[order[pos + 1]])
            carried == IF pos = 0 THEN Zero ELSE time_remaining
        IN  /\ \E drawn \in [1..Len(task_estimates) -> Range(velocity)] :
                    t' = TaskHours(task_estimates, drawn)
            /\ sampled' \in Range(buffer)
            /\ time_remaining' = RatAdd(carried, RatMul(t', sampled'))
            /\ Recorded(simulation_runs, simulation_runs', time_remaining')]_vars

C10_Witness ==
    /\ pc = "trials"
    /\ trial = 1
    /\ pos = 2
    /\ t # Zero
    /\ time_remaining # RatMul(t, sampled)

====
